---- MODULE Spec2Model ----
(***************************************************************************)
(* examples/train-resnet50-multiray-wds.ipynb: a WebDataset training       *)
(* notebook.  The model covers the notebook's own code: enumerate_report,  *)
(* make_dataloader_train, make_dataloader, Config, train, train_on_ray,    *)
(* distributed_training and the three script cells that call them.         *)
(*                                                                         *)
(* Four specifications are given:                                          *)
(*   Spec       the notebook run top to bottom (cells in order).           *)
(*   SpecLive   that run when no library call raises, the tasks scheduled  *)
(*              fairly.                                                    *)
(*   SpecCalls  single calls of make_dataloader(split), train(config) and  *)
(*              train_on_ray(rank, config) with the arguments drawn from   *)
(*              bounded input sets.                                        *)
(*   SpecReport a single call of enumerate_report(seq, delta, growth),     *)
(*              consumed to its end.                                       *)
(* Under SpecCalls and SpecReport the clock advances between any two       *)
(* steps.  Under Spec and SpecLive                                         *)
(* the run sees one clock reading, 0 or MaxClock (below and above the      *)
(* default report_s), which keeps the interleavings of the tasks within    *)
(* reach; what Spec is used for does not depend on the time of a report.   *)
(*                                                                         *)
(* Python values.  Optional[int] is <<>> (None) or <<r>>.  A float that is *)
(* not integral is an exact fraction [num, den] in lowest terms.  A number *)
(* whose Python type matters (int or float) is [v, isfloat].  time.time()  *)
(* is an integer reading of a clock, in seconds.                           *)
(***************************************************************************)
EXTENDS Integers, Sequences, FiniteSets, TLC

VARIABLES
    pc,       \* position of the driver (the notebook kernel)
    cfg,      \* the Config objects: cfg[0] is the driver's `config`,
              \* cfg[ArgCell(i)] the object task i received
    split,    \* argument of the make_dataloader call (SpecCalls)
    dl,       \* outcome of the last make_dataloader call made by the driver
    sample,   \* <<>> or <<n>>: the batch of n samples the script drew
    loc,      \* activation of train() in the driver process
    clock,    \* the wall clock read by time.time()
    num_gpus, \* local num_gpus of distributed_training
    tasks,    \* the train_on_ray tasks, by rank
    results,  \* what distributed_training printed, <<>> before
    args,     \* arguments of the enumerate_report call (SpecReport)
    gen,      \* the generator that call returned, <<>> without a call
    out       \* the triples the generator has yielded, with the clock
              \* reading each was computed from

reportVars == <<args, gen, out>>

vars == <<pc, cfg, split, dl, sample, loc, clock, num_gpus, tasks, results,
          args, gen, out>>

----------------------------------------------------------------------------
(* Bounds of the model *)

MaxGpus == 3      \* the scheduler reports 1..MaxGpus GPUs
MaxClock == 17    \* clock readings are 0..MaxClock
MaxItems == 3     \* enumerate_report is called with seqs of 0..MaxItems items
MaxEpochs == 2    \* train is called with epochs in 0..MaxEpochs

----------------------------------------------------------------------------
(* Python values *)

None == <<>>
Some(x) == <<x>>

RECURSIVE GCD(_, _)
GCD(a, b) == IF b = 0 THEN a ELSE GCD(b, a % b)

Frac(n, d) == [num |-> n \div GCD(n, d), den |-> d \div GCD(n, d)]
FracMul(x, y) == Frac(x.num * y.num, x.den * y.den)
\* n >= x: a throttle that also fires when exactly delta has elapsed
IntGeFrac(n, x) == n * x.den >= x.num
\* n > x for an integer n and a fraction x
IntGtFrac(n, x) == n * x.den > x.num

PyInt(n) == [v |-> n, isfloat |-> FALSE]
PyFloat(n) == [v |-> n, isfloat |-> TRUE]
\* max(a, b) in the place of min: the first argument unless the second is larger
PyMax(a, b) == IF b.v > a.v THEN b ELSE a
\* Python's min(a, b): the first argument unless the second is smaller
PyMin(a, b) == IF b.v < a.v THEN b ELSE a

----------------------------------------------------------------------------
(* Program constants *)

batch_size == 32
EpochLen == (1282 * 100) \div 64
DequeMaxlen == 100
\* int(1e18) is beyond TLC's integers; this stand-in is likewise above every
\* value steps can take (at most batch_size * EpochLen * epochs).
MaxstepsDefault == 1000000000
SmokeEpochs == 1
SmokeMaxsteps == 1000
DistEpochs == 3
SgdDefaultMomentum == Frac(0, 1)
GrowthDefault == Frac(1, 1)

Config ==
    [epochs |-> 1, maxsteps |-> MaxstepsDefault,
     lr |-> Frac(1, 1000), momentum |-> Frac(9, 10),
     rank |-> None, world_size |-> PyInt(2), backend |-> "nccl",
     master_addr |-> "localhost", master_port |-> "12355",
     report_s |-> Frac(15, 1), report_growth |-> Frac(11, 10)]

----------------------------------------------------------------------------
(* enumerate_report(seq, delta, growth=1.0), a generator.  pos is the index *)
(* of the next item of seq; suspended says the generator is parked at a     *)
(* yield, so that resuming it first runs `delta *= growth`.                 *)

enumerate_report(delta, growth) ==
    [last |-> 0, count |-> 0, delta |-> delta, growth |-> growth,
     pos |-> 0, suspended |-> FALSE, flag |-> FALSE, done |-> FALSE]

\* a generator counting with enumerate(seq, 1)
ReportNextOneBased(g, n, now) ==
    LET d == IF g.suspended THEN FracMul(g.delta, g.growth) ELSE g.delta
    IN  IF g.pos < n
        THEN LET f == IntGtFrac(now - g.last, d)
             IN  [g EXCEPT !.delta = d, !.count = g.pos + 1, !.pos = g.pos + 1,
                           !.last = IF f THEN now ELSE g.last,
                           !.flag = f, !.suspended = TRUE]
        ELSE [g EXCEPT !.delta = d, !.suspended = FALSE, !.flag = FALSE,
                       !.done = TRUE]

\* next(g) over a seq of n items, the clock reading now
ReportNext(g, n, now) ==
    LET d == IF g.suspended THEN FracMul(g.delta, g.growth) ELSE g.delta
    IN  IF g.pos < n
        THEN LET f == IntGtFrac(now - g.last, d)
             IN  [g EXCEPT !.delta = d, !.count = g.pos, !.pos = g.pos + 1,
                           !.last = IF f THEN now ELSE g.last,
                           !.flag = f, !.suspended = TRUE]
        ELSE [g EXCEPT !.delta = d, !.suspended = FALSE, !.flag = FALSE,
                       !.done = TRUE]

----------------------------------------------------------------------------
(* make_dataloader_train and make_dataloader *)

\* the functions the notebook defines; a call of any other name is a NameError
DefinedNames ==
    {"enumerate_report", "make_dataloader_train", "make_dataloader",
     "train", "train_on_ray", "distributed_training"}

Returned(v) == [outcome |-> "returned", value |-> v, exc |-> "", arg |-> ""]
Raised(e, a) == [outcome |-> "raised", value |-> "", exc |-> e, arg |-> a]
NotCalled == [outcome |-> "none", value |-> "", exc |-> "", arg |-> ""]

\* the loader is resampled (infinite) and cut to EpochLen batches per iteration
make_dataloader_train == Returned("trainloader")

CallByName(name, result) ==
    IF name \in DefinedNames THEN result ELSE Raised("NameError", name)

\* a make_dataloader whose final `else` falls through to the validation loader
make_dataloader_lenient(s) ==
    IF s = "train" THEN CallByName("make_dataloader_train", make_dataloader_train)
    ELSE CallByName("make_dataloader_val", Returned("valloader"))

make_dataloader(s) ==
    IF s = "train" THEN CallByName("make_dataloader_train", make_dataloader_train)
    ELSE IF s = "val" THEN CallByName("make_dataloader_val", Returned("valloader"))
    ELSE Raised("ValueError", s)

\* an epoch length computed with the loader's batch size instead of 64
LoaderLenByBatchSize(loader) ==
    IF loader = "trainloader" THEN (1282 * 100) \div batch_size ELSE 0

\* len(trainloader's iteration): with_epoch(1282 * 100 // 64)
LoaderLen(loader) == IF loader = "trainloader" THEN EpochLen ELSE 0

----------------------------------------------------------------------------
(* train(config).  An activation of train is a record:                      *)
(*   pc        "idle" (not called), "loop" (at the `for epoch` head),       *)
(*             "batch" (about to take the next item of enumerate_report),   *)
(*             "backward" (between the report and loss.backward()),         *)
(*             "maxsteps", "finished" (returned), "raised"                  *)
(*   rank      config.rank as train read it when it built the model         *)
(*   ddp       the model is wrapped in DistributedDataParallel              *)
(*   opt       <<>> or <<[lr, momentum]>>, the optimizer                    *)
(*   g         the enumerate_report generator of the current epoch          *)
(*   losses, accuracies   lengths of the two deques                         *)
(*   nbatches  batches taken from the loader, nupdates optimizer.step()s    *)
(*   report    <<>> or the report line printed for the current batch        *)

TrainIdle ==
    [pc |-> "idle", rank |-> None, ddp |-> FALSE, opt |-> <<>>,
     loader |-> "", epochs |-> 0, epoch |-> 0,
     g |-> enumerate_report(Frac(0, 1), GrowthDefault),
     losses |-> 0, accuracies |-> 0, steps |-> 0,
     nbatches |-> 0, nupdates |-> 0, report |-> <<>>, msg |-> ""]

TrainRaise(t) == [t EXCEPT !.pc = "raised", !.report = <<>>]

\* torch.optim.SGD(model.parameters(), lr=config.lr)
Optimizer(c) == [lr |-> c.lr, momentum |-> SgdDefaultMomentum]

\* a report throttle whose timer starts when the epoch starts, not at time 0
TrainReporterFromNow(c) ==
    [enumerate_report(c.report_s, GrowthDefault) EXCEPT !.last = clock]

\* the generator train iterates: enumerate_report(trainloader, config.report_s)
TrainReporter(c) == enumerate_report(c.report_s, GrowthDefault)

\* len(labels): the loader rebatches an endless stream into full batches
LabelCount == batch_size

StepsAfter(steps) == steps + LabelCount

\* a cap that already stops at steps = config.maxsteps
OverCapInclusive(steps, c) == steps >= c.maxsteps

\* steps > config.maxsteps
OverCap(steps, c) == steps > c.maxsteps

\* a window that is a plain list: it grows with every batch
DequeAppendUnbounded(n) == n + 1

DequeAppend(n) == IF n < DequeMaxlen THEN n + 1 ELSE DequeMaxlen

\* a train that wraps the model whenever a process group exists
TrainSetupWrapIfGroup(c, pg) ==
    LET d == make_dataloader("train")
    IN  IF d.outcome # "returned"
        THEN TrainRaise([TrainIdle EXCEPT !.rank = c.rank])
        ELSE [TrainIdle EXCEPT !.pc = "loop", !.rank = c.rank, !.ddp = pg,
                               !.opt = <<Optimizer(c)>>, !.loader = d.value,
                               !.epochs = c.epochs]

\* lines 230-242: model, optional DDP wrap, optimizer, loader, deques, and
\* range(config.epochs).  pg: this process has initialised a process group;
\* DistributedDataParallel(model) raises in a process that has none.
TrainSetup(c, pg) ==
    LET d == make_dataloader("train")
        wrap == c.rank # None
    IN  IF (wrap /\ ~pg) \/ d.outcome # "returned"
        THEN TrainRaise([TrainIdle EXCEPT !.rank = c.rank])
        ELSE [TrainIdle EXCEPT !.pc = "loop", !.rank = c.rank, !.ddp = wrap,
                               !.opt = <<Optimizer(c)>>, !.loader = d.value,
                               !.epochs = c.epochs]

\* a train that counts the samples per epoch: steps restarts with the epoch
TrainLoopResetSteps(t, c) ==
    IF t.epoch < t.epochs
    THEN [t EXCEPT !.pc = "batch", !.g = TrainReporter(c), !.report = <<>>,
                   !.steps = 0]
    ELSE [t EXCEPT !.pc = "finished", !.msg = "finished Training",
                   !.report = <<>>]

\* line 242-243 and 269: the head of `for epoch in range(config.epochs)`
TrainLoop(t, c) ==
    IF t.epoch < t.epochs
    THEN [t EXCEPT !.pc = "batch", !.g = TrainReporter(c), !.report = <<>>]
    ELSE [t EXCEPT !.pc = "finished", !.msg = "finished Training",
                   !.report = <<>>]

\* lines 243-261: the next item, forward pass, statistics, report
TrainForward(t, c, now) ==
    LET g2 == ReportNext(t.g, LoaderLen(t.loader), now)
        nl == DequeAppend(t.losses)
    IN  IF g2.done
        THEN [t EXCEPT !.g = g2, !.epoch = t.epoch + 1, !.pc = "loop",
                       !.report = <<>>]
        ELSE [t EXCEPT !.g = g2, !.pc = "backward",
                       !.losses = nl,
                       !.accuracies = DequeAppend(t.accuracies),
                       !.nbatches = t.nbatches + 1,
                       !.report = IF g2.flag /\ nl > 0
                                  THEN <<[rank |-> c.rank, epoch |-> t.epoch,
                                          i |-> g2.count, steps |-> t.steps]>>
                                  ELSE <<>>]

\* lines 262-267: backward, optimizer step, the step cap
TrainBackward(t, c) ==
    LET s == StepsAfter(t.steps)
    IN  IF OverCap(s, c)
        THEN [t EXCEPT !.steps = s, !.nupdates = t.nupdates + 1,
                       !.pc = "maxsteps",
                       !.msg = "finished training (maxsteps)"]
        ELSE [t EXCEPT !.steps = s, !.nupdates = t.nupdates + 1,
                       !.pc = "batch"]

\* a library call made by train raises; train(config) has been entered, so
\* the activation has the config it was called with
TrainFail(t, c) ==
    IF t.pc = "idle" THEN TrainRaise([t EXCEPT !.rank = c.rank])
    ELSE TrainRaise(t)

TrainReturned(t) == t.pc \in {"maxsteps", "finished"}
TrainActive(t) == t.pc \in {"loop", "batch", "backward"}

----------------------------------------------------------------------------
(* train running in the driver process (no process group there) *)

LocalSetup ==
    /\ pc = "train" /\ loc.pc = "idle"
    /\ loc' = TrainSetup(cfg[0], FALSE)
    /\ UNCHANGED <<pc, cfg, split, dl, sample, clock, num_gpus, tasks, results>>
    /\ UNCHANGED reportVars

LocalLoop ==
    /\ pc = "train" /\ loc.pc = "loop"
    /\ loc' = TrainLoop(loc, cfg[0])
    /\ UNCHANGED <<pc, cfg, split, dl, sample, clock, num_gpus, tasks, results>>
    /\ UNCHANGED reportVars

LocalForward ==
    /\ pc = "train" /\ loc.pc = "batch"
    /\ loc' = TrainForward(loc, cfg[0], clock)
    /\ UNCHANGED <<pc, cfg, split, dl, sample, clock, num_gpus, tasks, results>>
    /\ UNCHANGED reportVars

LocalBackward ==
    /\ pc = "train" /\ loc.pc = "backward"
    /\ loc' = TrainBackward(loc, cfg[0])
    /\ UNCHANGED <<pc, cfg, split, dl, sample, clock, num_gpus, tasks, results>>
    /\ UNCHANGED reportVars

\* a CUDA error, a failed shard fetch, ...: raised by the libraries train calls
LocalFail ==
    /\ pc = "train" /\ (loc.pc = "idle" \/ TrainActive(loc))
    /\ loc' = TrainFail(loc, cfg[0])
    /\ UNCHANGED <<pc, cfg, split, dl, sample, clock, num_gpus, tasks, results>>
    /\ UNCHANGED reportVars

\* time passes
Tick ==
    /\ clock < MaxClock
    /\ clock' = clock + 1
    /\ UNCHANGED <<pc, cfg, split, dl, sample, loc, num_gpus, tasks, results>>
    /\ UNCHANGED reportVars

----------------------------------------------------------------------------
(* SpecCalls: one call of make_dataloader(split), of train(config) or of   *)
(* train_on_ray(rank, config); the inputs                                  *)

Splits == {"train", "val", "test", "valid", ""}

MaxstepsInputs == {0, 31, 32, SmokeMaxsteps}
\* a cap that is reached only in the second epoch
MaxstepsOverEpoch == batch_size * EpochLen + 31
FracInputs == {Frac(0, 1), Frac(1, 2), Frac(9, 10), Frac(11, 10), Frac(2, 1)}

TrainConfigs ==
    {[Config EXCEPT !.epochs = e] : e \in 0..MaxEpochs}
    \cup {[Config EXCEPT !.epochs = e, !.maxsteps = m, !.report_s = s] :
             e \in 1..MaxEpochs, m \in MaxstepsInputs,
             s \in {Frac(15, 1), Frac(2, 1)}}
    \cup {[Config EXCEPT !.maxsteps = 0, !.lr = l, !.momentum = mo] :
             l \in {Frac(1, 1000), Frac(1, 100)}, mo \in FracInputs}
    \cup {[Config EXCEPT !.maxsteps = 32, !.report_s = Frac(2, 1),
                         !.report_growth = gr] : gr \in FracInputs}
    \cup {[Config EXCEPT !.maxsteps = 0, !.rank = Some(0)]}
    \cup {[Config EXCEPT !.epochs = MaxEpochs, !.maxsteps = MaxstepsOverEpoch]}

\* the ranks a run of the notebook can use are 0..MaxWorld-1
MaxWorld == Config.world_size.v

NoTask ==
    [pc |-> "none", rank |-> None, env |-> <<>>, pg |-> <<>>,
     attempts |-> 0, excs |-> 0, t |-> TrainIdle]

----------------------------------------------------------------------------
(* SpecReport: one call g = enumerate_report(seq, delta, growth), consumed *)
(* item by item by a for loop, the clock advancing between the items       *)

\* the items are told apart from each other and from the counts
Item(k) == 100 + k

SeqInputs == {[k \in 1..n |-> Item(k)] : n \in 0..MaxItems}
DeltaInputs == {Frac(0, 1), Frac(2, 1), Frac(15, 1)}
GrowthInputs == {Frac(1, 2), GrowthDefault, Frac(11, 10), Frac(2, 1)}

\* the item the suspended generator g yielded: the one `for count, item in
\* enumerate(seq)` bound last
ReportItem(g, s) == s[g.pos]

InitReport ==
    /\ pc = "enumerate_report"
    /\ \E s \in SeqInputs, d \in DeltaInputs, gr \in GrowthInputs :
          /\ args = [seq |-> s, delta |-> d, growth |-> gr]
          /\ gen = enumerate_report(d, gr)
    /\ out = <<>>
    /\ clock = 0
    /\ cfg = [k \in 0..MaxWorld |-> Config]
    /\ split = "train"
    /\ dl = NotCalled
    /\ sample = <<>>
    /\ loc = TrainIdle
    /\ num_gpus = PyInt(0)
    /\ tasks = [i \in 0..(MaxWorld - 1) |-> NoTask]
    /\ results = <<>>

\* one turn of the consuming for loop: next(g); the last turn ends the loop
NextItem ==
    /\ pc = "enumerate_report" /\ ~gen.done
    /\ LET g2 == ReportNext(gen, Len(args.seq), clock)
       IN  /\ gen' = g2
           /\ out' = IF g2.done THEN out
                     ELSE Append(out, [count |-> g2.count,
                                       item |-> ReportItem(g2, args.seq),
                                       flag |-> g2.flag, now |-> clock])
           /\ pc' = IF g2.done THEN "exhausted" ELSE pc
    /\ UNCHANGED <<cfg, split, dl, sample, loc, clock, num_gpus, tasks,
                   results, args>>

NextReport == NextItem \/ Tick

SpecReport == InitReport /\ [][NextReport]_vars

----------------------------------------------------------------------------
(* train_on_ray(rank, config), a Ray task.  A task is a record:            *)
(*   pc        "none" (not launched), "start", "initpg", "setrank",        *)
(*             "train", "returned", "raised"                               *)
(*   rank      the rank argument                                           *)
(*   env       <<>> or <<[MASTER_ADDR, MASTER_PORT]>>, os.environ there    *)
(*   pg        <<>> or the process group this process initialised          *)
(*   attempts  executions of the task, excs exceptions raised in it        *)
(*   t         its activation of train                                     *)

Ranks == 0..(MaxWorld - 1)

\* every task working on the driver's Config object itself
ArgCellShared(i) == 0

\* Ray pickles the arguments of a remote call: task i works on its own copy
ArgCell(i) == i + 1

\* a train_on_ray that swallows the exception and returns
ExceptionSwallowed == "returned"

\* nothing in train, train_on_ray or distributed_training handles exceptions
ExceptionOutcome == "raised"

Launched(i) == tasks[i].pc # "none"

TaskAfterTrain(tk, t2) ==
    [tk EXCEPT !.t = t2,
               !.pc = IF t2.pc = "raised" THEN ExceptionOutcome
                      ELSE IF TrainReturned(t2) THEN "returned" ELSE "train",
               !.excs = IF t2.pc = "raised" THEN tk.excs + 1 ELSE tk.excs]

\* lines 321-323
TaskEnv(i) ==
    /\ tasks[i].pc = "start"
    /\ tasks' = [tasks EXCEPT ![i] =
          IF tasks[i].rank # None
          THEN [@ EXCEPT !.pc = "initpg",
                   !.env = <<[MASTER_ADDR |-> cfg[ArgCell(i)].master_addr,
                              MASTER_PORT |-> cfg[ArgCell(i)].master_port]>>]
          ELSE [@ EXCEPT !.pc = "train"]]
    /\ UNCHANGED <<pc, cfg, split, dl, sample, loc, clock, num_gpus, results>>
    /\ UNCHANGED reportVars

\* a train_on_ray that goes on without calling init_process_group
TaskInitPGOmitted(i) ==
    /\ tasks[i].pc = "initpg"
    /\ tasks' = [tasks EXCEPT ![i].pc = "setrank"]
    /\ UNCHANGED <<pc, cfg, split, dl, sample, loc, clock, num_gpus, results>>
    /\ UNCHANGED reportVars

\* a train_on_ray that passes the default world size to init_process_group
TaskInitPGDefaultWorld(i) ==
    /\ tasks[i].pc = "initpg"
    /\ tasks' = [tasks EXCEPT ![i] =
          [@ EXCEPT !.pc = "setrank",
               !.pg = <<[rank |-> tasks[i].rank[1],
                         world_size |-> Config.world_size.v,
                         backend |-> cfg[ArgCell(i)].backend]>>]]
    /\ UNCHANGED <<pc, cfg, split, dl, sample, loc, clock, num_gpus, results>>
    /\ UNCHANGED reportVars

\* line 324
TaskInitPG(i) ==
    /\ tasks[i].pc = "initpg"
    /\ tasks' = [tasks EXCEPT ![i] =
          [@ EXCEPT !.pc = "setrank",
               !.pg = <<[rank |-> tasks[i].rank[1],
                         world_size |-> cfg[ArgCell(i)].world_size.v,
                         backend |-> cfg[ArgCell(i)].backend]>>]]
    /\ UNCHANGED <<pc, cfg, split, dl, sample, loc, clock, num_gpus, results>>
    /\ UNCHANGED reportVars

\* line 325
TaskSetRank(i) ==
    /\ tasks[i].pc = "setrank"
    /\ cfg' = [cfg EXCEPT ![ArgCell(i)].rank = tasks[i].rank]
    /\ tasks' = [tasks EXCEPT ![i].pc = "train"]
    /\ UNCHANGED <<pc, split, dl, sample, loc, clock, num_gpus, results>>
    /\ UNCHANGED reportVars

\* line 327 and train's lines 230-242
TaskSetup(i) ==
    /\ tasks[i].pc = "train" /\ tasks[i].t.pc = "idle"
    /\ tasks' = [tasks EXCEPT ![i] =
          TaskAfterTrain(@, TrainSetup(cfg[ArgCell(i)], tasks[i].pg # <<>>))]
    /\ UNCHANGED <<pc, cfg, split, dl, sample, loc, clock, num_gpus, results>>
    /\ UNCHANGED reportVars

TaskLoop(i) ==
    /\ tasks[i].pc = "train" /\ tasks[i].t.pc = "loop"
    /\ tasks' = [tasks EXCEPT ![i] =
          TaskAfterTrain(@, TrainLoop(tasks[i].t, cfg[ArgCell(i)]))]
    /\ UNCHANGED <<pc, cfg, split, dl, sample, loc, clock, num_gpus, results>>
    /\ UNCHANGED reportVars

TaskForward(i) ==
    /\ tasks[i].pc = "train" /\ tasks[i].t.pc = "batch"
    /\ tasks' = [tasks EXCEPT ![i] =
          TaskAfterTrain(@, TrainForward(tasks[i].t, cfg[ArgCell(i)], clock))]
    /\ UNCHANGED <<pc, cfg, split, dl, sample, loc, clock, num_gpus, results>>
    /\ UNCHANGED reportVars

\* loss.backward() of a DistributedDataParallel model averages the gradients
\* over the process group: it completes once every rank of the group has
\* entered the backward pass of the same batch.
GradientsReady(i) ==
    tasks[i].t.ddp =>
        \A j \in 0..(tasks[i].pg[1].world_size - 1) :
            tasks[j].t.nbatches >= tasks[i].t.nbatches

TaskBackward(i) ==
    /\ tasks[i].pc = "train" /\ tasks[i].t.pc = "backward"
    /\ GradientsReady(i)
    /\ tasks' = [tasks EXCEPT ![i] =
          TaskAfterTrain(@, TrainBackward(tasks[i].t, cfg[ArgCell(i)]))]
    /\ UNCHANGED <<pc, cfg, split, dl, sample, loc, clock, num_gpus, results>>
    /\ UNCHANGED reportVars

\* a library call of the task raises: process-group initialisation, a shard
\* fetch, a CUDA error in a training step
TaskFail(i) ==
    /\ \/ tasks[i].pc = "initpg"
       \/ tasks[i].pc = "train"
    /\ tasks' = [tasks EXCEPT ![i] =
          [@ EXCEPT !.pc = ExceptionOutcome, !.excs = @ + 1,
               !.t = IF tasks[i].pc = "train"
                     THEN TrainFail(@, cfg[ArgCell(i)]) ELSE @]]
    /\ UNCHANGED <<pc, cfg, split, dl, sample, loc, clock, num_gpus, results>>
    /\ UNCHANGED reportVars

----------------------------------------------------------------------------
(* SpecCalls, continued: the initial states and the steps.  The third kind *)
(* of call is train_on_ray(rank, config) run as a single task.             *)

RankInputs == {None, Some(0)}

\* a group of one rank, so that the task does not wait for peers
RemoteConfigs ==
    {[Config EXCEPT !.world_size = PyInt(1), !.maxsteps = m] :
        m \in {0, 32, SmokeMaxsteps}}

InitCalls ==
    /\ \/ pc = "make_dataloader" /\ split \in Splits
          /\ cfg = [k \in 0..MaxWorld |-> Config]
          /\ tasks = [i \in Ranks |-> NoTask]
       \/ pc = "train" /\ split = "train"
          /\ \E c \in TrainConfigs :
                cfg = [k \in 0..MaxWorld |-> IF k = 0 THEN c ELSE Config]
          /\ tasks = [i \in Ranks |-> NoTask]
       \/ pc = "train_on_ray" /\ split = "train"
          /\ \E r \in RankInputs, c \in RemoteConfigs :
                /\ cfg = [k \in 0..MaxWorld |->
                             IF k = ArgCell(0) THEN c ELSE Config]
                /\ tasks = [i \in Ranks |->
                               IF i = 0
                               THEN [NoTask EXCEPT !.pc = "start", !.rank = r,
                                                   !.attempts = 1]
                               ELSE NoTask]
    /\ dl = NotCalled
    /\ sample = <<>>
    /\ loc = TrainIdle
    /\ clock = 0
    /\ num_gpus = PyInt(0)
    /\ results = <<>>
    /\ args = <<>> /\ gen = <<>> /\ out = <<>>

CallMakeDataloader ==
    /\ pc = "make_dataloader"
    /\ dl' = make_dataloader(split)
    /\ pc' = "called"
    /\ UNCHANGED <<cfg, split, sample, loc, clock, num_gpus, tasks, results>>
    /\ UNCHANGED reportVars

NextCalls ==
    \/ CallMakeDataloader
    \/ LocalSetup \/ LocalLoop \/ LocalForward \/ LocalBackward \/ LocalFail
    \/ \E i \in Ranks :
          \/ TaskEnv(i) \/ TaskInitPG(i) \/ TaskSetRank(i)
          \/ TaskSetup(i) \/ TaskLoop(i) \/ TaskForward(i) \/ TaskBackward(i)
          \/ TaskFail(i)
    \/ Tick

SpecCalls == InitCalls /\ [][NextCalls]_vars

----------------------------------------------------------------------------
(* The script: the cells of the notebook in order.  A cell that raises     *)
(* ends the run.                                                           *)

DefaultSplit == "train"

\* a run that goes on to the next cell after a cell raised
OnCellErrorContinue(failed, next) == next

\* a cell that raises ends the run: the later cells are not executed
OnCellError(failed, next) == failed

\* lines 183-187: sample = next(iter(make_dataloader()))
DrawSample ==
    /\ pc = "cell5"
    /\ dl' = make_dataloader(DefaultSplit)
    /\ \E fail \in BOOLEAN :
          IF dl'.outcome = "returned" /\ ~fail
          THEN sample' = <<batch_size>> /\ pc' = "cell8"
          ELSE sample' = sample /\ pc' = OnCellError("failed_cell5", "cell8")
    /\ UNCHANGED <<cfg, split, loc, clock, num_gpus, tasks, results>>
    /\ UNCHANGED reportVars

\* lines 293-296: config = Config(); epochs = 1; maxsteps = 1000; train(config)
CellSmoke ==
    /\ pc = "cell8"
    /\ cfg' = [cfg EXCEPT ![0] = [Config EXCEPT !.epochs = SmokeEpochs,
                                                !.maxsteps = SmokeMaxsteps]]
    /\ loc' = TrainIdle
    /\ pc' = "train"
    /\ UNCHANGED <<split, dl, sample, clock, num_gpus, tasks, results>>
    /\ UNCHANGED reportVars

SmokeReturn ==
    /\ pc = "train"
    /\ \/ TrainReturned(loc) /\ pc' = "cell10"
       \/ loc.pc = "raised" /\ pc' = OnCellError("failed_cell8", "cell10")
    /\ UNCHANGED <<cfg, split, dl, sample, loc, clock, num_gpus, tasks, results>>
    /\ UNCHANGED reportVars

\* lines 496-498: config = Config(); config.epochs = 3; distributed_training(config)
CellDist ==
    /\ pc = "cell10"
    /\ cfg' = [cfg EXCEPT ![0] = [Config EXCEPT !.epochs = DistEpochs]]
    /\ pc' = "dist"
    /\ UNCHANGED <<split, dl, sample, loc, clock, num_gpus, tasks, results>>
    /\ UNCHANGED reportVars

\* ray.available_resources()['GPU']: the scheduler's count, an int or a float
GpuReports == {PyInt(n) : n \in 1..MaxGpus} \cup {PyFloat(n) : n \in 1..MaxGpus}

\* lines 491-492
DistResources ==
    /\ pc = "dist"
    /\ \E n \in GpuReports :
          /\ num_gpus' = n
          /\ cfg' = [cfg EXCEPT ![0].world_size = PyMin(cfg[0].world_size, n)]
    /\ pc' = "launch"
    /\ UNCHANGED <<split, dl, sample, loc, clock, tasks, results>>
    /\ UNCHANGED reportVars

\* range(n): a TypeError unless n is an int
RangeOk(n) == ~n.isfloat
PyRange(n) == 0..(n.v - 1)

\* line 493, the list of train_on_ray.remote(i, config).  num_gpus is not
\* read after line 492: the model forgets it here.
DistLaunch ==
    /\ pc = "launch"
    /\ IF RangeOk(cfg[0].world_size)
       THEN /\ tasks' = [i \in Ranks |->
                   IF i \in PyRange(cfg[0].world_size)
                   THEN [NoTask EXCEPT !.pc = "start", !.rank = Some(i),
                                       !.attempts = 1]
                   ELSE tasks[i]]
            /\ cfg' = [k \in DOMAIN cfg |->
                   IF k \in {ArgCell(i) : i \in PyRange(cfg[0].world_size)}
                   THEN cfg[0] ELSE cfg[k]]
            /\ pc' = "get"
       ELSE /\ pc' = "failed_launch"
            /\ UNCHANGED <<tasks, cfg>>
    /\ num_gpus' = PyInt(0)
    /\ UNCHANGED <<split, dl, sample, loc, clock, results>>
    /\ UNCHANGED reportVars

\* line 493-494: ray.get returns the tasks' results, which are printed
DistGetReturn ==
    /\ pc = "get"
    /\ \A i \in Ranks : Launched(i) => tasks[i].pc = "returned"
    /\ results' = <<[k \in 1..Cardinality({i \in Ranks : Launched(i)}) |-> None]>>
    /\ pc' = "done"
    /\ UNCHANGED <<cfg, split, dl, sample, loc, clock, num_gpus, tasks>>
    /\ UNCHANGED reportVars

\* line 493: ray.get raises the exception of a failed task
DistGetRaise ==
    /\ pc = "get"
    /\ \E i \in Ranks : tasks[i].pc = "raised"
    /\ pc' = "failed_get"
    /\ UNCHANGED <<cfg, split, dl, sample, loc, clock, num_gpus, tasks, results>>
    /\ UNCHANGED reportVars

Init ==
    /\ pc = "cell5"
    /\ cfg = [k \in 0..MaxWorld |-> Config]
    /\ split = DefaultSplit
    /\ dl = NotCalled
    /\ sample = <<>>
    /\ loc = TrainIdle
    /\ clock \in {0, MaxClock}
    /\ num_gpus = PyInt(0)
    /\ tasks = [i \in Ranks |-> NoTask]
    /\ results = <<>>
    /\ args = <<>> /\ gen = <<>> /\ out = <<>>

Next ==
    \/ DrawSample \/ CellSmoke
    \/ LocalSetup \/ LocalLoop \/ LocalForward \/ LocalBackward \/ LocalFail
    \/ SmokeReturn \/ CellDist \/ DistResources \/ DistLaunch
    \/ \E i \in Ranks :
          \/ TaskEnv(i) \/ TaskInitPG(i) \/ TaskSetRank(i)
          \/ TaskSetup(i) \/ TaskLoop(i) \/ TaskForward(i) \/ TaskBackward(i)
          \/ TaskFail(i)
    \/ DistGetReturn \/ DistGetRaise

Spec == Init /\ [][Next]_vars

----------------------------------------------------------------------------
(* SpecLive: the run of the notebook in which no library call raises in   *)
(* the local training or in a task.  Ray runs every task in a worker       *)
(* process of its own, and ray.get returns once every task has returned:   *)
(* each task that can take a step eventually takes one (weak fairness per  *)
(* task), and so does the driver waiting in ray.get.                       *)

TaskStep(i) ==
    \/ TaskEnv(i) \/ TaskInitPG(i) \/ TaskSetRank(i)
    \/ TaskSetup(i) \/ TaskLoop(i) \/ TaskForward(i) \/ TaskBackward(i)

NextLive ==
    \/ DrawSample \/ CellSmoke
    \/ LocalSetup \/ LocalLoop \/ LocalForward \/ LocalBackward
    \/ SmokeReturn \/ CellDist \/ DistResources \/ DistLaunch
    \/ \E i \in Ranks : TaskStep(i)
    \/ DistGetReturn

SpecLive ==
    /\ Init /\ [][NextLive]_vars
    /\ \A i \in Ranks : WF_vars(TaskStep(i))
    /\ WF_vars(DistGetReturn)

----------------------------------------------------------------------------
(* Properties *)

DistStages == {"dist", "launch", "get", "done", "failed_launch", "failed_get"}
LaunchedRanks == {i \in Ranks : Launched(i)}

\* C1: make_dataloader(split) raises ValueError, naming the split, for every
\* split other than "train" and "val", and builds no loader then; for "train"
\* it returns what make_dataloader_train returns.
C1_RejectsUnknownSplit ==
    pc = "called" =>
        /\ split \notin {"train", "val"} =>
              /\ dl.outcome = "raised" /\ dl.exc = "ValueError"
              /\ dl.arg = split /\ dl.value = ""
        /\ split = "train" => dl = make_dataloader_train
        /\ DefaultSplit = "train"

C1_Witness ==
    pc = "called" /\ split = "test" /\ dl.exc = "ValueError" /\ dl.arg = "test"

\* C2: make_dataloader("val") returns a validation dataloader and does not
\* end in an error.
C2_ValReturnsLoader ==
    (pc = "called" /\ split = "val") =>
        dl.outcome = "returned" /\ dl.value = "valloader"

\* C3: distributed_training sets config.world_size to the minimum of its old
\* value and the reported GPU count, and launches exactly that many tasks,
\* ranks 0..world_size-1, each once, each given that world_size.
C3_LaunchesClampedWorld ==
    /\ pc = "launch" =>
          cfg[0].world_size.v =
              (IF num_gpus.v < Config.world_size.v THEN num_gpus.v
               ELSE Config.world_size.v)
    /\ pc \in DistStages \ {"dist", "launch"} =>
          /\ LaunchedRanks = 0..(cfg[0].world_size.v - 1)
          /\ \A i \in LaunchedRanks :
                /\ tasks[i].attempts = 1
                /\ tasks[i].rank = Some(i)
                /\ cfg[ArgCell(i)].world_size = cfg[0].world_size
                /\ tasks[i].pg # <<>> =>
                      tasks[i].pg[1].world_size = cfg[0].world_size.v

\* C4: each task has its own copy of the configuration record: the write
\* config.rank = i of task i is seen neither by the driver nor by another
\* task, and task i calls train with config.rank = i.
C4_ConfigByValue ==
    /\ pc \in DistStages => cfg[0].rank = None
    /\ \A i \in LaunchedRanks :
          /\ cfg[ArgCell(i)].rank \in {None, Some(i)}
          /\ tasks[i].t.pc # "idle" => tasks[i].t.rank = Some(i)
          /\ tasks[i].t.report # <<>> => tasks[i].t.report[1].rank = Some(i)

C4_Witness ==
    /\ pc = "get"
    /\ \A i \in Ranks : tasks[i].t.pc = "backward" /\ tasks[i].t.rank = Some(i)
    /\ cfg[ArgCell(0)].rank # cfg[ArgCell(1)].rank

\* C5: the optimizer train constructs has learning rate config.lr and
\* momentum config.momentum.
C5_OptimizerFromConfig ==
    loc.opt # <<>> =>
        /\ loc.opt[1].lr = cfg[0].lr
        /\ loc.opt[1].momentum = cfg[0].momentum

\* C6: the reports of train are throttled with initial interval
\* config.report_s, and the interval is multiplied by config.report_growth
\* each time the report generator is resumed.
C6_ReportCadenceFromConfig ==
    [][/\ (loc.pc = "loop" /\ loc'.pc = "batch") =>
              loc'.g.delta = cfg[0].report_s
       /\ (loc.pc = "batch" /\ loc.g.suspended /\ loc'.pc # "raised") =>
              loc'.g.delta = FracMul(loc.g.delta, cfg[0].report_growth)]_vars

\* C7: the three stages run strictly in sequence: the local training starts
\* only after the pipeline was built and a batch drawn, and no distributed
\* task exists before the local training has returned.
C7_StagesInSequence ==
    /\ (pc \notin {"cell5", "failed_cell5"} \/ loc.pc # "idle") =>
          sample # <<>> /\ dl.outcome = "returned"
    /\ (pc \in DistStages \cup {"cell10"} \/ LaunchedRanks # {}) =>
          TrainReturned(loc) /\ sample # <<>>

C7_Witness ==
    /\ TrainReturned(loc) /\ sample = <<batch_size>>
    /\ \E i \in Ranks : tasks[i].pc = "train" /\ tasks[i].t.nbatches > 0

\* C8: an exception raised in a task is not caught and the task is not run
\* again: the task ends raised, ray.get either still waits or has raised, and
\* distributed_training prints no results.
C8_WorkerFailureSurfaces ==
    /\ \A i \in Ranks :
          (tasks[i].excs > 0 \/ tasks[i].t.pc = "raised") =>
              /\ tasks[i].pc = "raised"
              /\ tasks[i].attempts = 1 /\ tasks[i].excs = 1
              /\ pc \in {"get", "failed_get"}
              /\ results = <<>>
    /\ pc = "failed_get" => \E i \in Ranks : tasks[i].excs > 0
    /\ pc = "done" => results # <<>>

C8_Witness ==
    /\ pc = "failed_get" /\ results = <<>>
    /\ \E i \in Ranks :
          tasks[i].pc = "raised" /\ tasks[i].t.pc = "raised"
          /\ tasks[i].t.nbatches > 0

\* C9: a batch is in progress only while steps <= config.maxsteps, train
\* returns right after the first batch that makes steps > config.maxsteps,
\* with maxsteps < steps <= maxsteps + batch size (1024 for maxsteps 1000);
\* steps counts samples: batch size times the optimizer updates.
C9_StepCap ==
    /\ loc.pc \in {"batch", "backward"} => loc.steps <= cfg[0].maxsteps
    /\ loc.steps > cfg[0].maxsteps => loc.pc = "maxsteps"
    /\ loc.pc = "maxsteps" =>
          /\ cfg[0].maxsteps < loc.steps
          /\ loc.steps <= cfg[0].maxsteps + batch_size
          /\ loc.msg = "finished training (maxsteps)"
          /\ cfg[0].maxsteps = 1000 => loc.steps = 1024
    /\ loc.steps = batch_size * loc.nupdates

C9_Witness ==
    /\ loc.pc = "maxsteps" /\ cfg[0].maxsteps = SmokeMaxsteps
    /\ loc.steps = 1024 /\ loc.nupdates = 32

\* C10: every epoch of the training loader yields exactly 1282*100 \div 64 =
\* 2003 batches, so a train that is not stopped by maxsteps has taken 2003 *
\* epochs batches when it prints "finished Training"; until then it can
\* always take its next step.
C10_EpochLength ==
    /\ EpochLen = 2003
    /\ loc.pc \in {"batch", "backward"} => loc.g.pos <= EpochLen
    /\ (loc.pc = "loop" /\ loc.epoch > 0) =>
          loc.g.pos = EpochLen /\ loc.nbatches = EpochLen * loc.epoch
    /\ loc.pc = "finished" =>
          /\ loc.nbatches = 2003 * cfg[0].epochs
          /\ loc.epoch = cfg[0].epochs
          /\ loc.msg = "finished Training"
    /\ TrainActive(loc) =>
          ENABLED (LocalLoop \/ LocalForward \/ LocalBackward)

C10_Witness ==
    /\ loc.pc = "finished" /\ cfg[0].epochs = 2
    /\ loc.nbatches = 4006 /\ loc.msg = "finished Training"

\* C11: a task with a rank sets MASTER_ADDR and MASTER_PORT from its config,
\* then initialises the process group with its rank and config.world_size,
\* then sets config.rank, and only then calls train: no task has entered
\* train, or wrapped the model in DistributedDataParallel, before it
\* initialised its process group.
C11_GroupBeforeWrap ==
    \A i \in LaunchedRanks :
        tasks[i].rank # None =>
          /\ tasks[i].pc # "start" =>
                tasks[i].env =
                    <<[MASTER_ADDR |-> cfg[ArgCell(i)].master_addr,
                       MASTER_PORT |-> cfg[ArgCell(i)].master_port]>>
          /\ tasks[i].pc = "start" => tasks[i].env = <<>>
          /\ tasks[i].pc \in {"start", "initpg"} =>
                tasks[i].pg = <<>>
          /\ tasks[i].pg # <<>> =>
                /\ tasks[i].env # <<>>
                /\ tasks[i].pg[1].rank = tasks[i].rank[1]
                /\ tasks[i].pg[1].world_size = cfg[ArgCell(i)].world_size.v
          /\ tasks[i].pc \in {"setrank", "train", "returned"} =>
                tasks[i].pg # <<>>
          /\ cfg[ArgCell(i)].rank # None =>
                tasks[i].pg # <<>> /\ cfg[ArgCell(i)].rank = tasks[i].rank
          /\ tasks[i].pc \in {"train", "returned"} =>
                cfg[ArgCell(i)].rank = tasks[i].rank
          /\ tasks[i].t.pc # "idle" =>
                tasks[i].pg # <<>> /\ cfg[ArgCell(i)].rank = tasks[i].rank
          /\ tasks[i].t.ddp => tasks[i].pg # <<>>

C11_Witness ==
    \E i \in LaunchedRanks :
        /\ tasks[i].t.ddp /\ tasks[i].t.nbatches > 0
        /\ tasks[i].pg # <<>> /\ tasks[i].pg[1].rank = i
        /\ cfg[ArgCell(i)].rank = Some(i)

\* the interval in force at the k-th item: delta after k-1 multiplications
\* by growth
RECURSIVE C12_DeltaAt(_)
C12_DeltaAt(k) ==
    IF k = 1 THEN args.delta ELSE FracMul(C12_DeltaAt(k - 1), args.growth)

\* the reading at the latest True-flagged item before the k-th, 0 if none
RECURSIVE C12_LastTrueBefore(_)
C12_LastTrueBefore(k) ==
    IF k = 1 THEN 0
    ELSE IF out[k - 1].flag THEN out[k - 1].now
    ELSE C12_LastTrueBefore(k - 1)

\* C12: enumerate_report is a report throttle: an item is flagged True if
\* and only if strictly more than the current delta seconds have elapsed
\* since the previous True-flagged item of the iteration (since time 0 for
\* the first), so two True flags of one iteration are more than the current
\* delta apart.
C12_ReportThrottle ==
    pc \in {"enumerate_report", "exhausted"} =>
        \A k \in 1..Len(out) :
            LET d == C12_DeltaAt(k)
            IN  /\ out[k].flag <=>
                      (out[k].now - C12_LastTrueBefore(k)) * d.den > d.num
                /\ \A j \in 1..(k - 1) :
                      (out[j].flag /\ out[k].flag) =>
                          (out[k].now - out[j].now) * d.den > d.num

C12_Witness ==
    /\ pc = "enumerate_report" /\ Len(out) = 3
    /\ out[1].flag /\ ~out[2].flag /\ out[3].flag
    /\ args.growth = Frac(2, 1) /\ args.delta = Frac(2, 1)
    /\ out[3].now - out[1].now = 9

\* C13: enumerate_report wraps the iterator transparently: whatever delta,
\* growth and the clock readings, it yields exactly one triple per item of
\* seq, in seq's order, the item unchanged and count its zero-based index,
\* and it ends exactly when seq ends.
C13_TransparentWrap ==
    pc \in {"enumerate_report", "exhausted"} =>
        /\ Len(out) <= Len(args.seq)
        /\ \A k \in 1..Len(out) :
              out[k].item = args.seq[k] /\ out[k].count = k - 1
        /\ gen.done <=> pc = "exhausted"
        /\ gen.done => Len(out) = Len(args.seq)
        /\ Len(out) = gen.pos

C13_Witness ==
    /\ pc = "exhausted" /\ Len(args.seq) = 3 /\ Len(out) = 3
    /\ out[1].flag /\ ~out[2].flag
    /\ out[3].count = 2 /\ out[3].item = Item(3) /\ out[3].flag

\* C14: the first batch of every epoch is reported: when the clock reading
\* exceeds the report interval, the first item of a fresh enumerate_report
\* iteration is flagged True and train prints a report with batch index 0,
\* and the sample count of a report is the number of samples trained before
\* its batch (0 at the first batch of the run).
C14_FirstBatchReported ==
    [][/\ (/\ pc = "train" /\ loc.pc = "batch" /\ ~loc.g.suspended
           /\ loc'.pc = "backward"
           /\ clock * cfg[0].report_s.den > cfg[0].report_s.num) =>
              /\ loc'.g.flag
              /\ loc'.report =
                     <<[rank |-> cfg[0].rank, epoch |-> loc.epoch, i |-> 0,
                        steps |-> batch_size * EpochLen * loc.epoch]>>
              /\ loc.epoch = 0 => loc'.report[1].steps = 0
       /\ (pc = "train" /\ loc'.report # <<>>) =>
              /\ loc'.report[1].steps = batch_size * (loc'.nbatches - 1)
              /\ loc'.report[1].i = loc'.g.count
              /\ loc'.report[1].epoch = loc'.epoch]_vars

C14_Witness ==
    /\ pc = "train" /\ loc.pc = "backward" /\ loc.g.count = 0
    /\ loc.report = <<[rank |-> None, epoch |-> 1, i |-> 0,
                       steps |-> batch_size * EpochLen]>>

\* C15: train wraps the model in DistributedDataParallel if and only if
\* config.rank is not None: a train called with the default rank None (the
\* local smoke test) runs unwrapped and without a process group, and
\* train_on_ray called with rank None sets no environment variable,
\* initialises no process group, leaves config.rank None and trains unwrapped.
C15_WrapIffRank ==
    /\ pc = "train" =>
          /\ loc.ddp => cfg[0].rank # None
          /\ (cfg[0].rank # None /\ (TrainActive(loc) \/ TrainReturned(loc)))
                => loc.ddp
          /\ \A i \in Ranks : tasks[i].pg = <<>>
    /\ pc = "train_on_ray" =>
          \A i \in LaunchedRanks :
             /\ tasks[i].t.ddp => cfg[ArgCell(i)].rank # None
             /\ (/\ cfg[ArgCell(i)].rank # None
                 /\ (TrainActive(tasks[i].t) \/ TrainReturned(tasks[i].t)))
                   => tasks[i].t.ddp
             /\ tasks[i].rank = None =>
                   /\ tasks[i].env = <<>> /\ tasks[i].pg = <<>>
                   /\ cfg[ArgCell(i)].rank = None
                   /\ ~tasks[i].t.ddp
             /\ (tasks[i].rank # None /\ tasks[i].t.pc # "idle") =>
                   cfg[ArgCell(i)].rank # None

C15_Witness ==
    /\ pc = "train_on_ray" /\ tasks[0].rank = None
    /\ tasks[0].pc = "returned" /\ tasks[0].t.msg = "finished training (maxsteps)"
    /\ tasks[0].t.nbatches = 32 /\ ~tasks[0].t.ddp
    /\ tasks[0].pg = <<>> /\ tasks[0].env = <<>>

\* the steps task i has taken: every step of a task adds to it
C16_Progress(i) ==
    LET t == tasks[i].t
    IN  (CASE tasks[i].pc = "none" -> 0 [] tasks[i].pc = "start" -> 1
           [] tasks[i].pc = "initpg" -> 2 [] tasks[i].pc = "setrank" -> 3
           [] OTHER -> 4)
        + t.nbatches + t.nupdates + 2 * t.epoch
        + (IF t.pc # "idle" THEN 1 ELSE 0)
        + (IF t.pc \in {"batch", "backward", "maxsteps"} THEN 1 ELSE 0)
        + (IF t.pc = "finished" THEN 1 ELSE 0)

\* C16: in a distributed run every rank executes the same number of training
\* iterations and leaves the loop at the same iteration, so no rank waits in
\* gradient synchronisation for a rank that has already returned, and (no
\* library call raising) every launched task eventually returns and so does
\* distributed_training: while the driver waits in ray.get some task or
\* ray.get itself can take a step, and every step of a task adds to a
\* bounded count of its steps.
C16_RanksInLockstep ==
    /\ [](\A i, j \in LaunchedRanks :
            /\ (tasks[i].pc = "returned" /\ tasks[j].pc = "returned") =>
                  /\ tasks[i].t.nbatches = tasks[j].t.nbatches
                  /\ tasks[i].t.steps = tasks[j].t.steps
                  /\ tasks[i].t.epoch = tasks[j].t.epoch
                  /\ tasks[i].t.pc = tasks[j].t.pc
            /\ tasks[j].pc = "returned" =>
                  tasks[i].t.nbatches <= tasks[j].t.nbatches
            /\ tasks[i].t.pc # "idle" =>
                  /\ tasks[i].pg # <<>>
                  /\ LaunchedRanks = 0..(tasks[i].pg[1].world_size - 1)
            /\ C16_Progress(i) <= 7 + 2 * EpochLen * DistEpochs + 2 * DistEpochs)
    /\ [](pc = "get" => ENABLED (DistGetReturn \/ \E i \in Ranks : TaskStep(i)))
    /\ [][\A i \in Ranks :
            tasks'[i] # tasks[i] => C16_Progress(i)' > C16_Progress(i)]_vars

C16_Witness ==
    /\ pc = "done" /\ LaunchedRanks = {0, 1}
    /\ \A i \in LaunchedRanks :
          /\ tasks[i].pc = "returned" /\ tasks[i].t.ddp
          /\ tasks[i].t.nbatches = EpochLen * DistEpochs

\* C17: the samples counter steps of train accumulates over the whole run: it
\* starts at 0, grows by the batch's label count after every batch and is
\* never reset or decreased at an epoch boundary, whereas the batch index i
\* and the report timer restart with each epoch; config.maxsteps therefore
\* caps the samples of the run, not of an epoch.
C17_StepsAccumulate ==
    /\ [](pc = "train" =>
            /\ loc.pc = "idle" => loc.steps = 0
            /\ loc.steps = batch_size * loc.nupdates
            /\ loc.pc \in {"batch", "backward"} =>
                  /\ loc.nbatches = EpochLen * loc.epoch + loc.g.pos
                  /\ loc.nupdates =
                        loc.nbatches - (IF loc.pc = "backward" THEN 1 ELSE 0)
                  /\ loc.g.suspended => loc.g.count = loc.g.pos - 1
            /\ (loc.pc = "batch" /\ ~loc.g.suspended) =>
                  /\ loc.g.pos = 0 /\ loc.g.count = 0 /\ loc.g.last = 0
                  /\ loc.g.delta = cfg[0].report_s
                  /\ loc.steps = batch_size * EpochLen * loc.epoch
            /\ loc.pc = "maxsteps" =>
                  /\ loc.steps > cfg[0].maxsteps
                  /\ loc.steps - batch_size <= cfg[0].maxsteps
            /\ TrainActive(loc) => loc.steps <= cfg[0].maxsteps)
    /\ [][pc = "train" =>
            /\ loc'.steps \in {loc.steps, loc.steps + batch_size}
            /\ loc'.epoch # loc.epoch => loc'.steps = loc.steps]_vars

C17_Witness ==
    /\ pc = "train" /\ loc.pc = "maxsteps" /\ loc.epoch = 1
    /\ cfg[0].maxsteps = batch_size * EpochLen + 31
    /\ loc.steps = batch_size * EpochLen + 32
    /\ loc.g.count = 0 /\ loc.nbatches = EpochLen + 1

\* C18: distributed_training changes only world_size in the caller's
\* configuration record: during the call and after it has returned the
\* caller's config.rank is None and every field other than world_size has
\* the value it had before the call, and world_size is not increased.
C18_OnlyWorldSizeChanged ==
    pc \in DistStages =>
        /\ cfg[0].rank = None
        /\ [cfg[0] EXCEPT !.world_size = Config.world_size] =
               [Config EXCEPT !.epochs = DistEpochs]
        /\ cfg[0].world_size.v <= Config.world_size.v
        /\ cfg[0].world_size.v >= 1

C18_Witness ==
    /\ pc = "done" /\ results # <<>>
    /\ cfg[0].world_size = PyInt(1) /\ cfg[0].rank = None
    /\ cfg[ArgCell(0)].rank = Some(0)
    /\ cfg[0].epochs = DistEpochs

\* C19: throughout train the windows losses and accuracies have equal length,
\* min(100, number of batches processed so far in the run, across epochs);
\* they are non-empty at every report, so the guard len(losses) > 0 never
\* suppresses a report: a report is printed exactly when the throttle flags
\* the batch.
C19_WindowsNeverEmpty ==
    pc = "train" =>
        /\ loc.losses = loc.accuracies
        /\ loc.losses = (IF loc.nbatches < 100 THEN loc.nbatches ELSE 100)
        /\ loc.report # <<>> => loc.losses > 0
        /\ loc.pc = "backward" =>
              /\ loc.losses > 0
              /\ loc.report # <<>> <=> loc.g.flag

C19_Witness ==
    /\ pc = "train" /\ loc.pc = "backward" /\ loc.epoch = 1
    /\ loc.g.count = 0 /\ loc.g.flag /\ loc.report # <<>>
    /\ loc.nbatches = EpochLen + 1
    /\ loc.losses = 100 /\ loc.accuracies = 100

====
